---------------------------- MODULE Spec2Model ----------------------------
(***************************************************************************)
(* A model of obsei's Twitter source (src/obsei/source/twitter_source.py): *)
(* TwitterSource.lookup as a state machine over its steps, and the pure    *)
(* helpers _generate_query_string, get_tweet_url and get_source_output as  *)
(* operators that compute what the Python computes.                        *)
(*                                                                         *)
(* Python values are modelled as follows.                                  *)
(*   str            a TLA+ string (Len and \o are those of Sequences)      *)
(*   Optional[T]    a record [none |-> BOOLEAN, val |-> T]                 *)
(*   List[T]        a sequence                                             *)
(*   dict           a function whose DOMAIN is the set of keys present     *)
(***************************************************************************)
EXTENDS Integers, Sequences, FiniteSets, TLC

VARIABLES
    pc,                \* position of the lookup call
    config,            \* the TwitterSourceConfig passed to lookup
    calls,             \* how often each searchtweets collaborator was called
    error,             \* the exception lookup raised, "" when none
    search_query,      \* what lookup handed to gen_request_parameters
    tweets_output,     \* what collect_results returned, as it was returned
    tweets,            \* lookup's local: the records classified as tweets
    users,             \* lookup's local: the list of the users-page kept
    meta_info,         \* lookup's local: the meta of the meta page kept
    user_map,          \* lookup's local: author id -> author record
    source_responses,  \* what lookup returns
    cleaner,           \* the behaviour of the text-cleaning collaborator
    q_args,            \* arguments of a _generate_query_string call
    q_ret,             \* its locals and return value
    u_args,            \* tweet text and parser output of a get_tweet_url call
    u_ret,             \* its return value
    n_tweet,           \* the tweet dict handed to get_source_output
    n_outs             \* the SourceResponses successive calls returned

lookupVars == <<pc, config, calls, error, search_query, tweets_output,
                tweets, users, meta_info, user_map, source_responses>>
queryVars == <<q_args, q_ret>>
urlVars == <<u_args, u_ret>>
normVars == <<n_tweet, n_outs>>
helperVars == <<cleaner, queryVars, urlVars, normVars>>
vars == <<lookupVars, helperVars>>

---------------------------------------------------------------------------
(* Python values *)

NoneStr == [none |-> TRUE, val |-> ""]
NoneList == [none |-> TRUE, val |-> <<>>]
NoneMeta == [none |-> TRUE, val |-> [result_count |-> 0]]
Some(v) == [none |-> FALSE, val |-> v]

\* Python truthiness of an Optional[str] or Optional[List]: None, "" and []
\* are falsy.
Truthy(x) == ~x.none /\ Len(x.val) > 0

\* {} as a dict.
EmptyDict == [k \in {} |-> k]

\* d[k] = v on a dict.
Put(d, k, v) == [j \in DOMAIN d \cup {k} |-> IF j = k THEN v ELSE d[j]]

\* sep.join(tokens)
RECURSIVE Join(_, _)
Join(sep, tokens) ==
    IF Len(tokens) = 0 THEN ""
    ELSE IF Len(tokens) = 1 THEN tokens[1]
    ELSE tokens[1] \o sep \o Join(sep, Tail(tokens))

\* All sequences over S of length at most n.
SeqsUpTo(S, n) == UNION {[1..k -> S] : k \in 0..n}


---------------------------------------------------------------------------
(* Module constants and TwitterSourceConfig *)

DEFAULT_MAX_TWEETS == 10

DEFAULT_OPERATORS == <<"-is:reply", "-is:retweet">>

\* TwitterSourceConfig.__init__, for the fields lookup's control flow reads:
\* operators left None get the default list.
TwitterSourceConfig(query, keywords, hashtags, usernames, operators) ==
    [query |-> query,
     keywords |-> keywords,
     hashtags |-> hashtags,
     usernames |-> usernames,
     operators |-> IF ~operators.none THEN operators ELSE Some(DEFAULT_OPERATORS),
     max_tweets |-> DEFAULT_MAX_TWEETS]

---------------------------------------------------------------------------
(* TwitterSource._generate_query_string *)

\* The group appended to or_tokens for one truthy category.
OrGroup(tokens) ==
    IF Len(tokens) > 0
    THEN "(" \o Join(" OR ", tokens) \o ")"
    ELSE Join("", tokens)

\* The loop over or_tokens_list = [keywords, hashtags, usernames].
RECURSIVE OrTokens(_)
OrTokens(or_tokens_list) ==
    IF or_tokens_list = <<>> THEN <<>>
    ELSE LET tokens == Head(or_tokens_list)
         IN  (IF Truthy(tokens) THEN <<OrGroup(tokens.val)>> ELSE <<>>)
             \o OrTokens(Tail(or_tokens_list))

OrQueryStr(or_tokens) ==
    IF or_tokens # <<>>
    THEN IF Len(or_tokens) > 0
         THEN Join(" OR ", or_tokens)
         ELSE Join("", or_tokens)
    ELSE ""

AndTokens(operators) ==
    IF Truthy(operators) THEN <<Join(" ", operators.val)>> ELSE <<>>

\* AndQueryStr without the space that separates it from the or-clause.
AndQueryStrNoSpace(and_tokens) ==
    IF and_tokens # <<>>
    THEN "(" \o Join(" ", and_tokens) \o ")"
    ELSE ""

AndQueryStr(and_tokens) ==
    IF and_tokens # <<>>
    THEN " (" \o Join(" ", and_tokens) \o ")"
    ELSE ""

\* GenerateQueryString with the operator clause appended to a free-text
\* query as well.
GenerateQueryStringAppending(query, keywords, hashtags, usernames, operators) ==
    LET or_query_str == IF Truthy(query) THEN query.val
                        ELSE OrQueryStr(OrTokens(<<keywords, hashtags, usernames>>))
        and_query_str == AndQueryStr(AndTokens(operators))
    IN  [or_query_str |-> or_query_str,
         and_query_str |-> and_query_str,
         ret |-> or_query_str \o and_query_str]

\* The locals of one call at its return, and the value returned (ret).  A
\* truthy query returns before the locals exist.
GenerateQueryString(query, keywords, hashtags, usernames, operators) ==
    IF Truthy(query)
    THEN [or_query_str |-> "", and_query_str |-> "", ret |-> query.val]
    ELSE LET or_query_str == OrQueryStr(OrTokens(<<keywords, hashtags, usernames>>))
             and_query_str == AndQueryStr(AndTokens(operators))
         IN  [or_query_str |-> or_query_str,
              and_query_str |-> and_query_str,
              ret |-> or_query_str \o and_query_str]

---------------------------------------------------------------------------
(* The text-cleaning collaborator (the preprocessor package) *)

TextTrailing == "Check this out https://x.co/abc"
TextLeading == "https://x.co/abc is cool"
TextPlain == "hello"
Texts == {TextTrailing, TextLeading, TextPlain}

UrlMatch == "https://x.co/abc"

\* What preprocessor.clean and preprocessor.parse(...).urls give on the
\* model's texts: clean removes the URL, parse reports it with the index one
\* past its last character, and urls is None when the text holds no URL.
Preprocessor ==
    [clean |-> [t \in Texts |->
                    IF t = TextTrailing THEN "Check this out"
                    ELSE IF t = TextLeading THEN "is cool"
                    ELSE t],
     urls |-> [t \in Texts |->
                    IF t = TextTrailing
                    THEN Some(<<[match |-> UrlMatch, end_index |-> Len(TextTrailing)]>>)
                    ELSE IF t = TextLeading
                    THEN Some(<<[match |-> UrlMatch, end_index |-> Len(UrlMatch)]>>)
                    ELSE NoneList]]

---------------------------------------------------------------------------
(* TwitterSource.get_tweet_url *)

\* The for loop over parsed_tweet.urls with its break: the match of the first
\* url_info whose end_index is last_index, None when the loop runs out.
RECURSIVE ScanUrls(_, _)
ScanUrls(urls, last_index) ==
    IF urls = <<>> THEN NoneStr
    ELSE IF Head(urls).end_index = last_index THEN Some(Head(urls).match)
    ELSE ScanUrls(Tail(urls), last_index)

\* The loop without its break: the match of the last url_info that ends at
\* last_index.
RECURSIVE ScanUrlsNoBreak(_, _, _)
ScanUrlsNoBreak(urls, last_index, tweet_url) ==
    IF urls = <<>> THEN tweet_url
    ELSE ScanUrlsNoBreak(Tail(urls), last_index,
             IF Head(urls).end_index = last_index THEN Some(Head(urls).match)
             ELSE tweet_url)

\* GetTweetUrl with that loop.
GetTweetUrlNoBreak(tweet_text, parsed_urls) ==
    IF ~Truthy(parsed_urls) THEN NoneStr
    ELSE ScanUrlsNoBreak(parsed_urls.val, Len(tweet_text), NoneStr)

\* get_tweet_url(tweet_text), with parsed_urls = parse(tweet_text).urls.
GetTweetUrl(tweet_text, parsed_urls) ==
    IF ~Truthy(parsed_urls) THEN NoneStr
    ELSE ScanUrls(parsed_urls.val, Len(tweet_text))

---------------------------------------------------------------------------
(* TwitterSource.get_source_output *)

SourceName == "Twitter"

\* TweetAfterOutput that also stores the cleaned text back into the dict.
TweetAfterOutputCleaningText(tweet, cl) ==
    Put(Put(tweet, "tweet_url", GetTweetUrl(tweet.text, cl.urls[tweet.text])),
        "text", cl.clean[tweet.text])

\* The tweet dict after the call: tweet["tweet_url"] = tweet_url.
TweetAfterOutput(tweet, cl) ==
    Put(tweet, "tweet_url", GetTweetUrl(tweet.text, cl.urls[tweet.text]))

\* The SourceResponse returned.  meta is the tweet dict itself; it is
\* recorded here with the contents it has when the call returns.
GetSourceOutput(tweet, cl) ==
    [processed_text |-> cl.clean[tweet.text],
     meta |-> TweetAfterOutput(tweet, cl),
     source_name |-> SourceName]

---------------------------------------------------------------------------
(* The records collect_results can return *)

MaxPages == 3

UserAnn == [id |-> "u1", name |-> "ann"]
UserAl == [id |-> "u1", name |-> "al"]
UserBob == [id |-> "u2", name |-> "bob"]
UserNoId == [name |-> "nobody"]

TweetRecords ==
    {[text |-> TextTrailing, author_id |-> "u1"],
     [text |-> TextLeading, author_id |-> "u2"],
     [text |-> TextPlain],
     [text |-> TextPlain, author_id |-> "u2", users |-> <<UserBob>>,
      meta |-> [result_count |-> 1]]}

UsersPages ==
    {[users |-> <<UserAnn>>],
     [users |-> <<UserAl, UserBob>>, meta |-> [result_count |-> 2]],
     [users |-> <<UserNoId, UserAnn>>],
     [users |-> <<UserBob, UserNoId>>],
     [users |-> <<>>]}

MetaPages == {[meta |-> [result_count |-> 1]]}

OtherRecords == {[errors |-> <<>>]}

RawRecords == TweetRecords \cup UsersPages \cup MetaPages \cup OtherRecords

---------------------------------------------------------------------------
(* TwitterSource.lookup *)

\* The guard of lookup's first statement.
ParametersRejected(c) ==
    ~Truthy(c.query) /\ ~Truthy(c.keywords) /\ ~Truthy(c.hashtags)
        /\ Truthy(c.usernames)

\* PartitionTweets with "users" tested before "text".
RECURSIVE PartitionTweetsUsersFirst(_)
PartitionTweetsUsersFirst(out) ==
    IF out = <<>> THEN <<>>
    ELSE (IF "users" \notin DOMAIN Head(out) /\ "text" \in DOMAIN Head(out)
          THEN <<Head(out)>> ELSE <<>>)
         \o PartitionTweetsUsersFirst(Tail(out))

\* The first loop over tweets_output: the tweets list it leaves.
RECURSIVE PartitionTweets(_)
PartitionTweets(out) ==
    IF out = <<>> THEN <<>>
    ELSE (IF "text" \in DOMAIN Head(out) THEN <<Head(out)>> ELSE <<>>)
         \o PartitionTweets(Tail(out))

\* PartitionUsers that extends the users list with each users-page.
RECURSIVE PartitionUsersExtending(_, _)
PartitionUsersExtending(out, acc) ==
    IF out = <<>> THEN acc
    ELSE LET raw_output == Head(out)
         IN  PartitionUsersExtending(Tail(out),
                 IF "text" \in DOMAIN raw_output THEN acc
                 ELSE IF "users" \in DOMAIN raw_output THEN acc \o raw_output.users
                 ELSE acc)

\* The same loop: the users list it leaves, starting from acc.
RECURSIVE PartitionUsers(_, _)
PartitionUsers(out, acc) ==
    IF out = <<>> THEN acc
    ELSE LET raw_output == Head(out)
         IN  PartitionUsers(Tail(out),
                 IF "text" \in DOMAIN raw_output THEN acc
                 ELSE IF "users" \in DOMAIN raw_output THEN raw_output.users
                 ELSE acc)

\* The same loop: the meta_info it leaves, starting from acc.
RECURSIVE PartitionMeta(_, _)
PartitionMeta(out, acc) ==
    IF out = <<>> THEN acc
    ELSE LET raw_output == Head(out)
         IN  PartitionMeta(Tail(out),
                 IF "text" \in DOMAIN raw_output THEN acc
                 ELSE IF "users" \in DOMAIN raw_output THEN acc
                 ELSE IF "meta" \in DOMAIN raw_output THEN Some(raw_output.meta)
                 ELSE acc)

\* Whether building user_map raises KeyError: the loop reads user["id"] of
\* every user once users[0] has an id.
UserMapRaises(us) ==
    /\ Len(us) > 0
    /\ "id" \in DOMAIN us[1]
    /\ \E i \in 1..Len(us) : "id" \notin DOMAIN us[i]

\* The loop user_map[user["id"]] = user from the map acc on.
RECURSIVE FillUserMap(_, _)
FillUserMap(us, acc) ==
    IF us = <<>> THEN acc
    ELSE FillUserMap(Tail(us), Put(acc, Head(us).id, Head(us)))

\* BuildUserMap that maps the first user only.
BuildUserMapFirstOnly(us) ==
    IF Len(us) > 0 /\ "id" \in DOMAIN us[1]
    THEN Put(EmptyDict, us[1].id, us[1])
    ELSE EmptyDict

\* user_map, when building it does not raise.
BuildUserMap(us) ==
    IF Len(us) > 0 /\ "id" \in DOMAIN us[1]
    THEN FillUserMap(us, EmptyDict)
    ELSE EmptyDict

\* The tweet dict after the if of the second loop.
AttachAuthor(tweet, umap) ==
    IF "author_id" \in DOMAIN tweet /\ tweet.author_id \in DOMAIN umap
    THEN Put(tweet, "author_info", umap[tweet.author_id])
    ELSE tweet

\* The second loop: one SourceResponse per tweet, in order.
RECURSIVE BuildResponses(_, _, _)
BuildResponses(tws, umap, cl) ==
    IF tws = <<>> THEN <<>>
    ELSE <<GetSourceOutput(AttachAuthor(Head(tws), umap), cl)>>
         \o BuildResponses(Tail(tws), umap, cl)

---------------------------------------------------------------------------
(* The configurations lookup is called with, and its steps *)

\* Every combination of truthy and falsy selectors, the falsy ones either
\* all None or all empty; operators are left to their default.
LookupConfigs ==
    {TwitterSourceConfig(q, k, h, u, NoneList) :
        q \in {NoneStr, Some("explicit")}, k \in {NoneList, Some(<<"foo">>)},
        h \in {NoneList, Some(<<"#ai">>)}, u \in {NoneList, Some(<<"@bob">>)}}
    \cup
    {TwitterSourceConfig(q, k, h, u, NoneList) :
        q \in {Some(""), Some("explicit")}, k \in {Some(<<>>), Some(<<"foo">>)},
        h \in {Some(<<>>), Some(<<"#ai">>)}, u \in {Some(<<>>), Some(<<"@bob">>)}}

NoCalls == [load_credentials |-> 0, gen_request_parameters |-> 0, collect_results |-> 0]

NoRequest == [query |-> "", results_per_call |-> 0]

LookupStart ==
    /\ calls = NoCalls
    /\ error = ""
    /\ search_query = NoRequest
    /\ tweets_output = <<>>
    /\ tweets = <<>>
    /\ users = <<>>
    /\ meta_info = NoneMeta
    /\ user_map = EmptyDict
    /\ source_responses = <<>>

\* No lookup is running (the specifications of the pure helpers).
LookupIdle == config = <<>> /\ LookupStart

NoQueryRet == [or_query_str |-> "", and_query_str |-> "", ret |-> ""]

QueryIdle == q_args = <<>> /\ q_ret = NoQueryRet
UrlIdle == u_args = <<>> /\ u_ret = NoneStr
NormIdle == n_tweet = <<>> /\ n_outs = <<>>

Init ==
    /\ pc = "start"
    /\ config \in LookupConfigs
    /\ LookupStart
    /\ cleaner = Preprocessor
    /\ QueryIdle /\ UrlIdle /\ NormIdle

\* if not config.query and ... : raise AttributeError(...)
LookupCheck ==
    /\ pc = "start"
    /\ IF ParametersRejected(config)
       THEN pc' = "raised" /\ error' = "AttributeError"
       ELSE pc' = "checked" /\ error' = error
    /\ UNCHANGED <<config, calls, search_query, tweets_output, tweets, users,
                   meta_info, user_map, source_responses, helperVars>>

\* search_args = load_credentials(...)
LookupLoadCredentials ==
    /\ pc = "checked"
    /\ pc' = "credentials"
    /\ calls' = [calls EXCEPT !.load_credentials = @ + 1]
    /\ UNCHANGED <<config, error, search_query, tweets_output, tweets, users,
                   meta_info, user_map, source_responses, helperVars>>

\* query = self._generate_query_string(...); gen_request_parameters(...)
LookupGenRequest ==
    /\ pc = "credentials"
    /\ pc' = "request"
    /\ search_query' =
           [query |-> GenerateQueryString(config.query, config.keywords,
                          config.hashtags, config.usernames, config.operators).ret,
            results_per_call |-> config.max_tweets]
    /\ calls' = [calls EXCEPT !.gen_request_parameters = @ + 1]
    /\ UNCHANGED <<config, error, tweets_output, tweets, users, meta_info,
                   user_map, source_responses, helperVars>>

\* tweets_output = collect_results(...); if not tweets_output: return []
LookupCollect ==
    /\ pc = "request"
    /\ \E out \in SeqsUpTo(RawRecords, MaxPages) :
          /\ tweets_output' = out
          /\ pc' = IF out = <<>> THEN "returned" ELSE "collected"
    /\ calls' = [calls EXCEPT !.collect_results = @ + 1]
    /\ UNCHANGED <<config, error, search_query, tweets, users, meta_info,
                   user_map, source_responses, helperVars>>

\* The loop that sorts tweets_output into tweets, users and meta_info
\* (meta_info is only logged afterwards).
LookupPartition ==
    /\ pc = "collected"
    /\ pc' = "partitioned"
    /\ tweets' = PartitionTweets(tweets_output)
    /\ users' = PartitionUsers(tweets_output, <<>>)
    /\ meta_info' = PartitionMeta(tweets_output, NoneMeta)
    /\ UNCHANGED <<config, calls, error, search_query, tweets_output, user_map,
                   source_responses, helperVars>>

\* user_map is built; a later user without "id" raises KeyError.
LookupUserMap ==
    /\ pc = "partitioned"
    /\ IF UserMapRaises(users)
       THEN pc' = "raised" /\ error' = "KeyError" /\ user_map' = user_map
       ELSE pc' = "mapped" /\ error' = error /\ user_map' = BuildUserMap(users)
    /\ UNCHANGED <<config, calls, search_query, tweets_output, tweets, users,
                   meta_info, source_responses, helperVars>>

\* The loop over tweets and return source_responses.
LookupRespond ==
    /\ pc = "mapped"
    /\ pc' = "returned"
    /\ source_responses' = BuildResponses(tweets, user_map, cleaner)
    /\ UNCHANGED <<config, calls, error, search_query, tweets_output, tweets,
                   users, meta_info, user_map, helperVars>>

Next ==
    \/ LookupCheck
    \/ LookupLoadCredentials
    \/ LookupGenRequest
    \/ LookupCollect
    \/ LookupPartition
    \/ LookupUserMap
    \/ LookupRespond

Spec == Init /\ [][Next]_vars

---------------------------------------------------------------------------
(* _generate_query_string called on its own *)

MaxTerms == 2

OptionalLists(terms) == {NoneList} \cup {Some(l) : l \in SeqsUpTo(terms, MaxTerms)}

QueryArgs ==
    [query : {NoneStr, Some(""), Some("explicit")},
     keywords : OptionalLists({"foo", "bar"}),
     hashtags : OptionalLists({"#ai"}),
     usernames : OptionalLists({"@bob"}),
     operators : OptionalLists({"-is:reply", "-is:retweet"})]

InitQuery ==
    /\ pc = "query_call"
    /\ q_args \in QueryArgs
    /\ q_ret = NoQueryRet
    /\ LookupIdle /\ cleaner = Preprocessor /\ UrlIdle /\ NormIdle

CallGenerateQueryString ==
    /\ pc = "query_call"
    /\ pc' = "query_done"
    /\ q_ret' = GenerateQueryString(q_args.query, q_args.keywords, q_args.hashtags,
                                    q_args.usernames, q_args.operators)
    /\ UNCHANGED <<q_args, config, calls, error, search_query, tweets_output,
                   tweets, users, meta_info, user_map, source_responses, cleaner, urlVars,
                   normVars>>

NextQuery == CallGenerateQueryString

SpecQuery == InitQuery /\ [][NextQuery]_vars

---------------------------------------------------------------------------
(* get_tweet_url called on its own, over whatever parse may return *)

MaxUrls == 2

UrlInfos ==
    [match : {UrlMatch, "https://y.co"},
     end_index : {Len(t) : t \in Texts} \cup {Len(UrlMatch)}]

UrlArgs ==
    [tweet_text : Texts,
     urls : {NoneList} \cup {Some(l) : l \in SeqsUpTo(UrlInfos, MaxUrls)}]

InitUrl ==
    /\ pc = "url_call"
    /\ u_args \in UrlArgs
    /\ u_ret = NoneStr
    /\ LookupIdle /\ cleaner = Preprocessor /\ QueryIdle /\ NormIdle

CallGetTweetUrl ==
    /\ pc = "url_call"
    /\ pc' = "url_done"
    /\ u_ret' = GetTweetUrl(u_args.tweet_text, u_args.urls)
    /\ UNCHANGED <<u_args, config, calls, error, search_query, tweets_output,
                   tweets, users, meta_info, user_map, source_responses, cleaner, queryVars,
                   normVars>>

NextUrl == CallGetTweetUrl

SpecUrl == InitUrl /\ [][NextUrl]_vars

---------------------------------------------------------------------------
(* get_source_output called repeatedly on one tweet dict *)

MaxNormCalls == 2

\* Deterministic text cleaners: any clean over the model's texts, and for
\* each text a parse that finds no URL, a trailing one or a leading one.
Cleaners ==
    [clean : [Texts -> Texts],
     urls : {f \in [Texts -> {NoneList} \cup {Some(<<i>>) : i \in UrlInfos}] :
                \A t \in Texts :
                    ~f[t].none =>
                        /\ f[t].val[1].match = UrlMatch
                        /\ f[t].val[1].end_index \in {Len(t), Len(UrlMatch)}}]

\* Tweet dicts: with or without an author_info, and with or without a
\* tweet_url left by an earlier pass.
NormTweets ==
    LET base == {[text |-> t] : t \in Texts}
                \cup {[text |-> t, author_info |-> UserAnn] : t \in Texts}
    IN  base \cup {Put(b, "tweet_url", v) : b \in base, v \in {NoneStr, Some("https://old")}}

InitNorm ==
    /\ pc = "norm"
    /\ n_tweet \in NormTweets
    /\ n_outs = <<>>
    /\ cleaner \in Cleaners
    /\ LookupIdle /\ QueryIdle /\ UrlIdle

CallGetSourceOutput ==
    /\ pc = "norm"
    /\ Len(n_outs) < MaxNormCalls
    /\ n_outs' = Append(n_outs, GetSourceOutput(n_tweet, cleaner))
    /\ n_tweet' = TweetAfterOutput(n_tweet, cleaner)
    /\ UNCHANGED <<pc, config, calls, error, search_query, tweets_output,
                   tweets, users, meta_info, user_map, source_responses, cleaner, queryVars,
                   urlVars>>

NextNorm == CallGetSourceOutput

SpecNorm == InitNorm /\ [][NextNorm]_vars

---------------------------------------------------------------------------
(* Properties of lookup's precondition *)

AllSelectorsEmpty(c) ==
    ~Truthy(c.query) /\ ~Truthy(c.keywords) /\ ~Truthy(c.hashtags)
        /\ ~Truthy(c.usernames)

\* C1: a lookup whose query, keywords, hashtags and usernames are all empty
\* or absent fails with the invalid-input error (AttributeError) as its first
\* step, and no collaborator is ever called.
C1_EmptySelectorsRejected ==
    (pc \in {"checked", "credentials", "request", "collected", "partitioned",
             "mapped", "returned", "raised"} /\ AllSelectorsEmpty(config))
        => /\ pc = "raised"
           /\ error = "AttributeError"
           /\ calls = NoCalls

\* C2: lookup raises the invalid-input error only when all four selectors are
\* empty or absent; with any selector non-empty (usernames alone included)
\* the check passes.
C2_RejectedOnlyWhenAllEmpty ==
    (pc = "raised" /\ error = "AttributeError") => AllSelectorsEmpty(config)

---------------------------------------------------------------------------
(* Properties of _generate_query_string *)

QueryDone == pc = "query_done"

\* The group the claim describes for one category: bare when it has one term.
ClaimedGroup(tokens) ==
    IF Len(tokens) > 1 THEN "(" \o Join(" OR ", tokens) \o ")" ELSE tokens[1]

ClaimedOrClause(a) ==
    Join(" OR ",
         (IF Truthy(a.keywords) THEN <<ClaimedGroup(a.keywords.val)>> ELSE <<>>)
         \o (IF Truthy(a.hashtags) THEN <<ClaimedGroup(a.hashtags.val)>> ELSE <<>>)
         \o (IF Truthy(a.usernames) THEN <<ClaimedGroup(a.usernames.val)>> ELSE <<>>))

\* C3: without a free-text query the or-clause holds one group per non-empty
\* category, in the order keywords, hashtags, usernames, joined by " OR "; a
\* category of several terms is "(t1 OR t2 ...)" and a category of exactly one
\* term is the bare term.
C3_OrClauseGroups ==
    (QueryDone /\ ~Truthy(q_args.query)
        /\ (Truthy(q_args.keywords) \/ Truthy(q_args.hashtags) \/ Truthy(q_args.usernames)))
        => q_ret.or_query_str = ClaimedOrClause(q_args)

\* C4: without a free-text query the result is the or-clause, one space and
\* the space-joined operators in parentheses when operators are supplied, and
\* the or-clause alone (the empty string when every input is empty) otherwise.
C4_OperatorClause ==
    (QueryDone /\ ~Truthy(q_args.query))
        => /\ Truthy(q_args.operators) =>
                  q_ret.ret = q_ret.or_query_str \o " " \o "("
                              \o Join(" ", q_args.operators.val) \o ")"
           /\ ~Truthy(q_args.operators) => q_ret.ret = q_ret.or_query_str
           /\ (~Truthy(q_args.operators) /\ ~Truthy(q_args.keywords)
                  /\ ~Truthy(q_args.hashtags) /\ ~Truthy(q_args.usernames))
                  => q_ret.ret = ""
           /\ (q_args.keywords = Some(<<"foo", "bar">>)
                  /\ ~Truthy(q_args.hashtags) /\ ~Truthy(q_args.usernames)
                  /\ q_args.operators = Some(<<"-is:reply">>))
                  => q_ret.ret = "(foo OR bar) (-is:reply)"

C4_Witness ==
    /\ QueryDone
    /\ q_args.query = NoneStr
    /\ q_args.keywords = Some(<<"foo", "bar">>)
    /\ q_args.hashtags = NoneList
    /\ q_args.usernames = NoneList
    /\ q_args.operators = Some(<<"-is:reply">>)
    /\ q_ret.ret = "(foo OR bar) (-is:reply)"

\* C5: a non-empty free-text query is returned verbatim, whatever the other
\* arguments are.
C5_QueryVerbatim ==
    (QueryDone /\ Truthy(q_args.query)) => q_ret.ret = q_args.query.val

C5_Witness ==
    /\ QueryDone
    /\ q_args.query = Some("explicit")
    /\ Len(q_args.keywords.val) = 2
    /\ Truthy(q_args.hashtags)
    /\ Truthy(q_args.usernames)
    /\ Truthy(q_args.operators)
    /\ q_ret.ret = "explicit"

---------------------------------------------------------------------------
(* Properties of get_tweet_url *)

\* C7: the extracted URL is the match of the first URL token, in parser
\* order, whose end index is the length of the text, and None when no token
\* ends there (or the parser returns none).
C7_FirstTrailingUrl ==
    pc = "url_done" =>
        LET urls == IF u_args.urls.none THEN <<>> ELSE u_args.urls.val
            atEnd == {i \in 1..Len(urls) : urls[i].end_index = Len(u_args.tweet_text)}
        IN  IF atEnd = {}
            THEN u_ret = NoneStr
            ELSE \E i \in atEnd :
                    /\ \A j \in atEnd : i <= j
                    /\ u_ret = Some(urls[i].match)

\* Two tokens with different matches end at the text's end: the first of the
\* two is returned.
C7_Witness ==
    /\ pc = "url_done"
    /\ ~u_args.urls.none
    /\ Len(u_args.urls.val) >= 2
    /\ \E i, j \in 1..Len(u_args.urls.val) :
          /\ i < j
          /\ u_args.urls.val[i].end_index = Len(u_args.tweet_text)
          /\ u_args.urls.val[j].end_index = Len(u_args.tweet_text)
          /\ u_args.urls.val[i].match # u_args.urls.val[j].match
          /\ u_ret = Some(u_args.urls.val[i].match)

---------------------------------------------------------------------------
(* Properties of get_source_output *)

\* C8: successive get_source_output calls on one tweet record return equal
\* SourceResponses: same cleaned text, same source label, same merged record.
C8_NormalizeTwiceEqual ==
    \A i, j \in 1..Len(n_outs) : n_outs[i] = n_outs[j]

\* Two calls were made, with a cleaner that changes the text and a parse that
\* finds a trailing URL, so that the first call wrote a non-null tweet_url.
C8_Witness ==
    /\ pc = "norm"
    /\ Len(n_outs) = 2
    /\ n_outs[1].processed_text # n_tweet.text
    /\ cleaner.clean[n_outs[1].processed_text] # n_outs[1].processed_text
    /\ n_outs[1].meta.tweet_url = Some(UrlMatch)
    /\ n_outs[2].meta.tweet_url = Some(UrlMatch)

---------------------------------------------------------------------------
(* Properties of lookup's reshaping of the collaborator's records *)

\* Positions in tweets_output of the records holding "text" (the tweets) and
\* of the users-pages (no "text", but "users").
TweetIdx == {i \in 1..Len(tweets_output) : "text" \in DOMAIN tweets_output[i]}

UsersPageIdx ==
    {i \in 1..Len(tweets_output) :
        "text" \notin DOMAIN tweets_output[i] /\ "users" \in DOMAIN tweets_output[i]}

\* The k-th smallest member of a set of positions.
Kth(S, k) == CHOOSE i \in S : Cardinality({j \in S : j < i}) = k - 1

LastOf(S) == CHOOSE i \in S : \A j \in S : j <= i

\* The records of the list us whose id is the tweet's author_id.
AuthorsOf(t, us) ==
    {j \in 1..Len(us) :
        "author_id" \in DOMAIN t /\ "id" \in DOMAIN us[j] /\ us[j].id = t.author_id}

\* C6: with exactly one users-page, all of whose records have an id, every
\* tweet whose author_id is the id of a record of that page is returned with
\* that record under author_info, and every other tweet without author_info,
\* wherever the users-page stands in the sequence.
C6_AuthorInfoAttached ==
    (pc = "returned" /\ Cardinality(UsersPageIdx) = 1
        /\ \A p \in UsersPageIdx : \A j \in 1..Len(tweets_output[p].users) :
               "id" \in DOMAIN tweets_output[p].users[j])
        => /\ Len(source_responses) = Cardinality(TweetIdx)
           /\ \A k \in 1..Cardinality(TweetIdx) :
                 LET t == tweets_output[Kth(TweetIdx, k)]
                     m == source_responses[k].meta
                     page == tweets_output[LastOf(UsersPageIdx)].users
                 IN  IF AuthorsOf(t, page) # {}
                     THEN /\ "author_info" \in DOMAIN m
                          /\ \E j \in AuthorsOf(t, page) : m.author_info = page[j]
                     ELSE "author_info" \notin DOMAIN m

\* A tweet before the users-page and a tweet after it both got their author.
C6_Witness ==
    /\ pc = "returned"
    /\ Len(tweets_output) = 3
    /\ UsersPageIdx = {2}
    /\ TweetIdx = {1, 3}
    /\ Len(tweets_output[2].users) = 2
    /\ Len(source_responses) = 2
    /\ "author_info" \in DOMAIN source_responses[1].meta
    /\ "author_info" \in DOMAIN source_responses[2].meta
    /\ source_responses[1].meta.author_info = UserAl
    /\ source_responses[2].meta.author_info = UserBob

\* What lookup returns for the records collect_results gave: one response
\* per record holding "text", in order, built from that record.
OneResponsePerTweet ==
    /\ Len(source_responses) = Cardinality(TweetIdx)
    /\ \A k \in 1..Cardinality(TweetIdx) :
          LET t == tweets_output[Kth(TweetIdx, k)]
              r == source_responses[k]
          IN  /\ r.processed_text = cleaner.clean[t.text]
              /\ r.source_name = SourceName
              /\ DOMAIN t \subseteq DOMAIN r.meta
              /\ DOMAIN r.meta \subseteq DOMAIN t \cup {"tweet_url", "author_info"}
              /\ \A key \in DOMAIN t : r.meta[key] = t[key]

\* lookup has ended after collect_results returned.
LookupEnded == calls.collect_results = 1 /\ pc \in {"returned", "raised"}

\* C9 as stated: for every sequence of raw records lookup returns exactly one
\* response per record holding "text", in order; records without "text" give
\* none, so a sequence without tweets gives the empty list.
C9_AsStated == LookupEnded => (pc = "returned" /\ OneResponsePerTweet)

\* The last users-page has an id in its first record and none in a later one.
LastUsersPageMalformed ==
    /\ UsersPageIdx # {}
    /\ LET us == tweets_output[LastOf(UsersPageIdx)].users
       IN  /\ Len(us) > 0
           /\ "id" \in DOMAIN us[1]
           /\ \E j \in 1..Len(us) : "id" \notin DOMAIN us[j]

\* C9, amended: lookup raises KeyError exactly when the last users-page has
\* an id in its first record and none in a later one; for every other
\* sequence it returns one response per record holding "text", in order.
C9_OneResponsePerTweet ==
    LookupEnded =>
        IF LastUsersPageMalformed
        THEN pc = "raised" /\ error = "KeyError" /\ source_responses = <<>>
        ELSE pc = "returned" /\ OneResponsePerTweet

\* A tweet, a record with both "text" and "users", and a record with none of
\* the three keys: two responses, in the order of the two tweets.
C9_Witness ==
    /\ pc = "returned"
    /\ Len(tweets_output) = 3
    /\ "errors" \in DOMAIN tweets_output[2]
    /\ "users" \in DOMAIN tweets_output[1] /\ "text" \in DOMAIN tweets_output[1]
    /\ "text" \in DOMAIN tweets_output[3]
    /\ Len(source_responses) = 2
    /\ source_responses[1].meta.text = tweets_output[1].text
    /\ source_responses[2].meta.text = tweets_output[3].text
    /\ tweets_output[1].text # tweets_output[3].text

\* C10: with several users-pages the author mapping holds the records of the
\* last users-page only, so a tweet whose author_id is found only in an
\* earlier users-page is returned without author_info.
C10_LastUsersPageWins ==
    (pc \in {"mapped", "returned"} /\ Cardinality(UsersPageIdx) >= 2)
        => LET last == tweets_output[LastOf(UsersPageIdx)].users
           IN  /\ users = last
               /\ \A id \in DOMAIN user_map : \E j \in 1..Len(last) : user_map[id] = last[j]
               /\ pc = "returned" =>
                     \A k \in 1..Cardinality(TweetIdx) :
                        AuthorsOf(tweets_output[Kth(TweetIdx, k)], last) = {}
                            => "author_info" \notin DOMAIN source_responses[k].meta

\* The author u2 is in the first users-page only, and the tweet by u2 is
\* returned without author_info.
C10_Witness ==
    /\ pc = "returned"
    /\ Len(tweets_output) = 3
    /\ UsersPageIdx = {1, 2}
    /\ AuthorsOf(tweets_output[3], tweets_output[1].users) # {}
    /\ AuthorsOf(tweets_output[3], tweets_output[2].users) = {}
    /\ Len(tweets_output[2].users) > 0
    /\ Len(source_responses) = 1
    /\ "author_info" \notin DOMAIN source_responses[1].meta

=============================================================================
